---- MODULE Spec2Model ----
(***************************************************************************)
(* Model of go-ipfs-blocklist: the Blocklist contract (blocklist.go) and   *)
(* its two backends, PgBlocklist (relational, gorm) and DatastoreBlocklist *)
(* (go-datastore).  Strings whose characters matter (CID strings, the      *)
(* "\n"-joined Content column) are sequences of one-character strings.     *)
(***************************************************************************)
EXTENDS Integers, Sequences, FiniteSets, TLC

\* ---------------------------------------------------------------- bounds
\* Multihashes are 1..MaxHash.
MaxHash == 1
\* The relational blocklist table holds at most MaxRows rows in the model.
MaxRows == 2
\* Each audit log holds at most MaxLogs entries in the model.
MaxLogs == 1
\* Creation times are at seconds 0..MaxTime.
MaxTime == 1
\* Concurrent callers of Block are 1..NumCallers.
NumCallers == 2

VARIABLES
    backend,        \* "pg" or "ds": the backend the deployment was built with
    dshelpByHash,   \* which go-ipfs-ds-help the build links (see CidToDsKey)
    blocklistTable, \* PgBlocklist: rows of the blocklist table, by primary key
    datastore,      \* the ds.Datastore the backend was constructed over
    auditlog,       \* PgBlocklist: rows of the "auditlog" table, by primary key
    last,           \* the last call made on the contract, and what it returned
    calls           \* concurrent callers of Block: where each call stands

vars == <<backend, dshelpByHash, blocklistTable, datastore, auditlog, last, calls>>

\* ---------------------------------------------------------------- CIDs
Hashes == 1..MaxHash
DagProtobuf == "dag-pb"
Raw == "raw"

\* go-cid: a version 0 CID is a bare multihash (its codec is implicitly
\* dag-pb); a version 1 CID carries a codec and a multihash.
CidV0(h) == [version |-> 0, codec |-> DagProtobuf, hash |-> h]
NewCidV1(codec, h) == [version |-> 1, codec |-> codec, hash |-> h]
CIDs == {CidV0(h) : h \in Hashes} \cup {NewCidV1(c, h) : c \in {DagProtobuf, Raw}, h \in Hashes}
NoCid == [version |-> 1, codec |-> "", hash |-> -1]

\* cid.Undef, the zero-value CID: no bytes, so Version() is 1 and Defined()
\* is false.
Undef == [version |-> 1, codec |-> "", hash |-> 0]
Defined(id) == id # Undef

\* base58 of a multihash ("Qm...")
B58String(h) == <<"Q", "m", ToString(h)>>

\* cid.Cid.String(): base58 of the multihash for version 0, multibase base32
\* of version+codec+multihash for version 1 ("bafy..." dag-pb, "bafk..." raw);
\* the undefined CID has no bytes and is the bare multibase prefix "b".
String(id) ==
    IF id = Undef THEN <<"b">>
    ELSE IF id.version = 0 THEN B58String(id.hash)
    ELSE IF id.codec = DagProtobuf THEN <<"b", "a", "f", "y", ToString(id.hash)>>
    ELSE <<"b", "a", "f", "k", ToString(id.hash)>>

\* mh.FromB58String: decodes a base58 string to a multihash, or fails.
FromB58String(s) ==
    IF \E h \in Hashes : B58String(h) = s
    THEN [err |-> "nil", hash |-> CHOOSE h \in Hashes : B58String(h) = s]
    ELSE [err |-> "InvalidIdentifier", hash |-> 0]

\* ---------------------------------------------------------------- strings
\* strings.Join(elems, sep) with a one-character separator
RECURSIVE Join(_, _)
Join(elems, sep) ==
    IF Len(elems) = 0 THEN <<>>
    ELSE IF Len(elems) = 1 THEN elems[1]
    ELSE elems[1] \o <<sep>> \o Join(Tail(elems), sep)

\* strings.Split(s, sep): always at least one element, Split("") = [""]
RECURSIVE SplitFrom(_, _, _)
SplitFrom(s, sep, cur) ==
    IF Len(s) = 0 THEN <<cur>>
    ELSE IF Head(s) = sep THEN <<cur>> \o SplitFrom(Tail(s), sep, <<>>)
    ELSE SplitFrom(Tail(s), sep, Append(cur, Head(s)))
Split(s, sep) == SplitFrom(s, sep, <<>>)

\* ---------------------------------------------------------------- data
\* BlockData values the callers pass (Content, Reason, User).
BlockDatas ==
    { [Content |-> << <<"a">>, <<"b">> >>, Reason |-> "DMCA", User |-> "alice"],
      [Content |-> << >>, Reason |-> "", User |-> "bob"] }
NoData == [Content |-> << >>, Reason |-> "", User |-> ""]
NoItem == [Hash |-> << >>, Content |-> << >>, Reason |-> "", User |-> ""]

\* BlocklistItem.MarshalBinary: json.Marshal of the four exported fields, as
\* the sequence of the object's name/value pairs
BlocklistItemMarshalBinary(bi) ==
    << <<"Hash", bi.Hash>>, <<"Content", bi.Content>>,
       <<"Reason", bi.Reason>>, <<"User", bi.User>> >>

JsonField(raw, name) == raw[CHOOSE i \in DOMAIN raw : raw[i][1] = name][2]

\* BlocklistItem.UnmarshalBinary: json.Unmarshal into the four fields
BlocklistItemUnmarshalBinary(raw) ==
    [Hash |-> JsonField(raw, "Hash"), Content |-> JsonField(raw, "Content"),
     Reason |-> JsonField(raw, "Reason"), User |-> JsonField(raw, "User")]

\* time.Time values: an instant (sec, nsec) and the zone it is expressed in
\* (hours east of UTC).  The callers pass whole and half seconds in UTC and
\* whole seconds in the zone one hour east.
CreatedAts ==
    {t \in [sec : 0..MaxTime, nsec : {0, 500}, zone : {0, 1}] : t.zone = 0 \/ t.nsec = 0}
NoTime == [sec |-> 0, nsec |-> 0, zone |-> 0]

\* Actions the callers pass to AddLog.
Actions ==
    [Typ : {"block", "unblock", "delete"},
     Ids : {<< >>, <<NewCidV1(DagProtobuf, 1)>>},
     Reason : {"DMCA"}, User : {"alice"}, CreatedAt : CreatedAts]
NoAct == [Typ |-> "", Ids |-> << >>, Reason |-> "", User |-> "", CreatedAt |-> NoTime]

\* What a call returns: ret is the boolean of Contains and Block, item the
\* item of Search, logs the actions of GetLogs (limit is the limit it was
\* given), err the error ("nil" when there is none).  Two history fields say
\* what the call did: created, that a Block wrote an entry, and afterBlock,
\* that an Unblock came right after a Block of the same id that returned no
\* error.  When the two backends are driven side by side, the fields are the
\* relational backend's and peer is what the key-value backend returned.
NoPeer == [ret |-> FALSE, item |-> NoItem, err |-> "nil"]
Result(op, id, data, ret, item, err) ==
    [op |-> op, id |-> id, data |-> data, act |-> NoAct, ret |-> ret, item |-> item,
     limit |-> 0, logs |-> << >>, err |-> err, created |-> FALSE, afterBlock |-> FALSE,
     peer |-> NoPeer]
Created(r) == [r EXCEPT !.created = TRUE]
AfterBlock(r) ==
    [r EXCEPT !.afterBlock = (last.op = "Block" /\ last.err = "nil" /\ last.id = r.id)]

\* ---------------------------------------------------------------- go-datastore
\* ds.Datastore over a map: Has, Get, Put, Delete.  Delete of an absent key
\* is no error (go-datastore's contract); Get of an absent key is ErrNotFound.
EmptyStore == [k \in {} |-> << >>]
Has(store, k) == k \in DOMAIN store
Put(store, k, v) == [x \in DOMAIN store \cup {k} |-> IF x = k THEN v ELSE store[x]]
Delete(store, k) == [x \in DOMAIN store \ {k} |-> store[x]]

\* ds.NewKey: the keys the backends build have one path component.
NewKey(k) == <<k>>

\* The namespaces NewDatastoreBlocklist wraps the base datastore in: keys of
\* safemodestore live under /safemode/blocklist, keys of auditstore under
\* /safemode/audit, and the base datastore itself is addressed unprefixed.
SafemodePrefix == <<"safemode">>
BlocklistPrefix == <<"blocklist">>
AuditPrefix == <<"audit">>
safemodestoreNs == SafemodePrefix \o BlocklistPrefix
\* auditstoreNs with the audit store wrapped under the blocklist prefix too
auditstoreNsBlocklist == SafemodePrefix \o BlocklistPrefix
auditstoreNs == SafemodePrefix \o AuditPrefix

\* namespace.Wrap(d, prefix): the store whose key k is d's key prefix/k.
\* Wrap is the wrapped store's content, WrapPut and WrapDelete its writes.
Wrap(d, prefix) ==
    [k \in {p[Len(p)] : p \in {q \in DOMAIN d : /\ Len(q) = Len(prefix) + 1
                                                /\ SubSeq(q, 1, Len(prefix)) = prefix}}
        |-> d[prefix \o NewKey(k)]]
WrapPut(d, prefix, k, v) == Put(d, prefix \o NewKey(k), v)
WrapDelete(d, prefix, k) == Delete(d, prefix \o NewKey(k))

\* DatastoreBlocklist.safemodestore and .auditstore: key -> marshalled item,
\* key -> marshalled action
safemodestore == Wrap(datastore, safemodestoreNs)
auditstore == Wrap(datastore, auditstoreNs)

\* dshelp.CidToDsKey.  go-ipfs-ds-help v1 derives the key from the CID's
\* multihash alone; v0 derives it from the CID's bytes (version, codec and
\* multihash).  The repository pins neither, so the build may link either:
\* dshelpByHash is fixed at construction and both are explored.
CidToDsKey(id) ==
    IF dshelpByHash THEN [version |-> 1, codec |-> "", hash |-> id.hash]
    ELSE id

\* ---------------------------------------------------------------- DatastoreBlocklist
\* DatastoreBlocklist.cidToKey: a version 0 CID is converted to the version 1
\* dag-pb CID of the same multihash before the key is derived.
cidToKey(id) ==
    IF id.version = 0
    THEN LET h == FromB58String(String(id))
         IN  IF h.err # "nil" THEN [err |-> h.err, key |-> Undef]
             ELSE [err |-> "nil", key |-> CidToDsKey(NewCidV1(DagProtobuf, h.hash))]
    ELSE [err |-> "nil", key |-> CidToDsKey(id)]

\* DatastoreBlocklist.Contains, as a function of the store
DsContains(store, id) ==
    IF ~Defined(id) THEN [ret |-> FALSE, err |-> "NotFound"]
    ELSE LET k == cidToKey(id)
         IN  IF k.err # "nil" THEN [ret |-> FALSE, err |-> k.err]
             ELSE [ret |-> Has(store, k.key), err |-> "nil"]

\* DatastoreBlocklist.Block, lines 81-92: the item written for (id, data)
DsBlockItem(id, data) ==
    [Hash |-> String(id), Content |-> data.Content, Reason |-> data.Reason, User |-> data.User]

\* DatastoreBlocklist.Search, as a function of the store
DsSearch(store, id) ==
    LET k == cidToKey(id)
    IN  IF k.err # "nil" THEN [item |-> NoItem, err |-> k.err]
        ELSE IF ~Has(store, k.key) THEN [item |-> NoItem, err |-> "NotFound"]
        ELSE [item |-> BlocklistItemUnmarshalBinary(store[k.key]), err |-> "nil"]

\* DatastoreBlocklist.Block returns true when it wrote a new entry and false
\* when one was there already.
DatastoreBlock(id, data) ==
    /\ backend = "ds"
    /\ LET k == cidToKey(id)
           c == DsContains(safemodestore, id)
       IN  IF k.err # "nil"
           THEN /\ last' = Result("Block", id, data, FALSE, NoItem, k.err)
                /\ UNCHANGED datastore
           ELSE IF c.err # "nil"
           THEN /\ last' = Result("Block", id, data, FALSE, NoItem, c.err)
                /\ UNCHANGED datastore
           ELSE IF c.ret
           THEN /\ last' = Result("Block", id, data, FALSE, NoItem, "nil")
                /\ UNCHANGED datastore
           ELSE /\ datastore' = WrapPut(datastore, safemodestoreNs, k.key,
                                       BlocklistItemMarshalBinary(DsBlockItem(id, data)))
                /\ last' = Created(Result("Block", id, data, TRUE, NoItem, "nil"))
    /\ UNCHANGED <<backend, dshelpByHash, blocklistTable, auditlog, calls>>

\* DatastoreBlocklist.Unblock: deletes the key, whether or not it is there
DatastoreUnblock(id) ==
    /\ backend = "ds"
    /\ LET k == cidToKey(id)
       IN  IF k.err # "nil"
           THEN /\ last' = AfterBlock(Result("Unblock", id, NoData, FALSE, NoItem, k.err))
                /\ UNCHANGED datastore
           ELSE /\ datastore' = WrapDelete(datastore, safemodestoreNs, k.key)
                /\ last' = AfterBlock(Result("Unblock", id, NoData, FALSE, NoItem, "nil"))
    /\ UNCHANGED <<backend, dshelpByHash, blocklistTable, auditlog, calls>>

DatastoreSearch(id) ==
    /\ backend = "ds"
    /\ LET r == DsSearch(safemodestore, id)
       IN  last' = Result("Search", id, NoData, FALSE, r.item, r.err)
    /\ UNCHANGED <<backend, dshelpByHash, blocklistTable, datastore, auditlog, calls>>

DatastoreContains(id) ==
    /\ backend = "ds"
    /\ LET r == DsContains(safemodestore, id)
       IN  last' = Result("Contains", id, NoData, r.ret, NoItem, r.err)
    /\ UNCHANGED <<backend, dshelpByHash, blocklistTable, datastore, auditlog, calls>>

\* ---------------------------------------------------------------- PgBlocklist
\* PgContainsHash without the conversion: the query filters by id.String()
\* whatever the version (as Search and Block do).
PgContainsHashAsGiven(id) == [err |-> "nil", hash |-> String(id)]

\* PgBlocklist.Contains, lines 79-86: the Hash string the query filters by.
\* A version 0 id is converted to the string of its version 1 dag-pb CID.
PgContainsHash(id) ==
    IF id.version = 0
    THEN LET h == FromB58String(String(id))
         IN  IF h.err # "nil" THEN [err |-> h.err, hash |-> << >>]
             ELSE [err |-> "nil", hash |-> String(NewCidV1(DagProtobuf, h.hash))]
    ELSE [err |-> "nil", hash |-> String(id)]

\* gorm Where(&PgBlocklistItem{Hash: h}): the rows (by primary key) whose
\* hash column equals h
PgWhereHash(table, h) == {i \in DOMAIN table : table[i].Hash = h}

\* PgBlocklist.Contains, as a function of the table: count > 0
PgContains(table, id) ==
    LET q == PgContainsHash(id)
    IN  IF q.err # "nil" THEN [ret |-> FALSE, err |-> q.err]
        ELSE [ret |-> Cardinality(PgWhereHash(table, q.hash)) > 0, err |-> "nil"]

\* PgBlocklist.Block, lines 106-111: the row created for (id, data)
PgBlockItem(id, data) ==
    [Hash |-> String(id), Content |-> Join(data.Content, "\n"),
     Reason |-> data.Reason, User |-> data.User]

\* PgBlocklist.Search, as a function of the table: First() is the matching row
\* of least primary key, or gorm.ErrRecordNotFound; the filter is id.String().
PgSearch(table, id) ==
    LET hits == PgWhereHash(table, String(id))
    IN  IF hits = {} THEN [item |-> NoItem, err |-> "NotFound"]
        ELSE LET out == table[CHOOSE i \in hits : \A j \in hits : i <= j]
             IN  [item |-> [Hash |-> out.Hash, Content |-> Split(out.Content, "\n"),
                            Reason |-> out.Reason, User |-> out.User],
                  err |-> "nil"]

\* PgBlocklist.Unblock, line 135: client.Unscoped().Delete(res), where res is
\* the *BlocklistItem that Search returned.  That value names no table (the
\* statement is not built with Table(blocklistTable)) and has no primary key,
\* and its Content field is a []string gorm cannot map: gorm builds no WHERE
\* clause and refuses the statement with an error, and no row is removed.
PgDelete(table, res) == [table |-> table, err |-> "StoreFailure"]

\* PgBlocklist.Block returns true when the id was blocked already and false
\* when it created a row.
PgBlock(id, data) ==
    /\ backend = "pg"
    /\ LET c == PgContains(blocklistTable, id)
       IN  IF c.err # "nil"
           THEN /\ last' = Result("Block", id, data, FALSE, NoItem, c.err)
                /\ UNCHANGED blocklistTable
           ELSE IF c.ret
           THEN /\ last' = Result("Block", id, data, TRUE, NoItem, "nil")
                /\ UNCHANGED blocklistTable
           ELSE /\ Len(blocklistTable) < MaxRows
                /\ blocklistTable' = Append(blocklistTable, PgBlockItem(id, data))
                /\ last' = Created(Result("Block", id, data, FALSE, NoItem, "nil"))
    /\ UNCHANGED <<backend, dshelpByHash, datastore, auditlog, calls>>

PgUnblock(id) ==
    /\ backend = "pg"
    /\ LET res == PgSearch(blocklistTable, id)
       IN  IF res.err # "nil"
           THEN /\ last' = AfterBlock(Result("Unblock", id, NoData, FALSE, NoItem, res.err))
                /\ UNCHANGED blocklistTable
           ELSE LET d == PgDelete(blocklistTable, res.item)
                IN  /\ blocklistTable' = d.table
                    /\ last' = AfterBlock(Result("Unblock", id, NoData, FALSE, NoItem, d.err))
    /\ UNCHANGED <<backend, dshelpByHash, datastore, auditlog, calls>>

PgBlocklistSearch(id) ==
    /\ backend = "pg"
    /\ LET r == PgSearch(blocklistTable, id)
       IN  last' = Result("Search", id, NoData, FALSE, r.item, r.err)
    /\ UNCHANGED <<backend, dshelpByHash, blocklistTable, datastore, auditlog, calls>>

PgBlocklistContains(id) ==
    /\ backend = "pg"
    /\ LET r == PgContains(blocklistTable, id)
       IN  last' = Result("Contains", id, NoData, r.ret, NoItem, r.err)
    /\ UNCHANGED <<backend, dshelpByHash, blocklistTable, datastore, auditlog, calls>>

\* ---------------------------------------------------------------- audit log
\* cid.Parse of a CID string
Parse(s) ==
    IF \E c \in CIDs : String(c) = s
    THEN [err |-> "nil", id |-> CHOOSE c \in CIDs : String(c) = s]
    ELSE [err |-> "InvalidIdentifier", id |-> Undef]

\* Action.MarshalBinary: json.Marshal of an Action.  A CID marshals to its
\* string, a time.Time to RFC 3339 with nanoseconds and its zone offset.
ActionMarshalBinary(l) ==
    << <<"Typ", l.Typ>>, <<"Ids", [i \in DOMAIN l.Ids |-> String(l.Ids[i])]>>,
       <<"Reason", l.Reason>>, <<"User", l.User>>, <<"CreatedAt", l.CreatedAt>> >>

\* Action.UnmarshalBinary
ActionUnmarshalBinary(raw) ==
    [Typ |-> JsonField(raw, "Typ"),
     Ids |-> [i \in DOMAIN JsonField(raw, "Ids") |-> Parse(JsonField(raw, "Ids")[i]).id],
     Reason |-> JsonField(raw, "Reason"), User |-> JsonField(raw, "User"),
     CreatedAt |-> JsonField(raw, "CreatedAt")]

\* time.Time.Format(time.RFC3339): the wall clock of the time's own zone, to
\* the second, followed by the zone ("Z" for UTC, else the offset).  Strings
\* of this layout order as the pair (wall clock, zone suffix) does.
FormatRFC3339(t) ==
    [wall |-> t.sec + 3600 * t.zone, zone |-> IF t.zone = 0 THEN "Z" ELSE "+01:00"]

\* s is no later than t, as instants
NotAfter(s, t) == s.sec < t.sec \/ (s.sec = t.sec /\ s.nsec <= t.nsec)

\* The result of an AddLog call
LogResult(act, err) ==
    [Result("AddLog", NoCid, NoData, FALSE, NoItem, err) EXCEPT !.act = act]

\* DsAddLogTypOk refusing only the empty type
DsAddLogTypNonEmpty(act) == act.Typ # ""

\* DatastoreBlocklist.AddLog, line 157: the action type is one of the two
DsAddLogTypOk(act) == ~(act.Typ # "block" /\ act.Typ # "unblock")

\* What a write to the store (Put, Create) comes back with: no error, or the
\* store's failure, in which case nothing was written.
WriteErrors == {"nil", "StoreFailure"}

\* DatastoreBlocklist.AddLog: the key is the creation time the caller gave,
\* formatted; the error of Put is dropped and nil is returned.
DatastoreAddLog(act) ==
    /\ backend = "ds"
    /\ IF ~DsAddLogTypOk(act)
       THEN /\ last' = LogResult(act, "InvalidActionType")
            /\ UNCHANGED datastore
       ELSE LET k == FormatRFC3339(act.CreatedAt)
            IN  \E putErr \in WriteErrors :
                    /\ IF putErr = "nil"
                       THEN /\ Has(auditstore, k) \/ Cardinality(DOMAIN auditstore) < MaxLogs
                            /\ datastore' = WrapPut(datastore, auditstoreNs, k,
                                                    ActionMarshalBinary(act))
                       ELSE UNCHANGED datastore
                    /\ last' = LogResult(act, "nil")
    /\ UNCHANGED <<backend, dshelpByHash, blocklistTable, auditlog, calls>>

\* PgBlocklist.AddLog, line 211
PgAddLogTypOk(act) == ~(act.Typ # "block" /\ act.Typ # "unblock")

\* PgBlocklist.AddLog.  rawIds is made with length 0 (and capacity len(Ids)),
\* so the assignment rawIds[i] of the first identifier is out of range and
\* the call panics.  With no identifiers a row is created; gorm stamps its
\* created_at with now, the time of the write, no earlier than the stamps
\* before.  The error of Create is returned.
PgAddLog(act, now) ==
    /\ backend = "pg"
    /\ IF ~PgAddLogTypOk(act)
       THEN /\ last' = LogResult(act, "InvalidActionType")
            /\ UNCHANGED auditlog
       ELSE LET rawIds == << >>
            IN  IF \E i \in DOMAIN act.Ids : i \notin DOMAIN rawIds
                THEN /\ last' = LogResult(act, "panic")
                     /\ UNCHANGED auditlog
                ELSE \E createErr \in WriteErrors :
                         IF createErr # "nil"
                         THEN /\ last' = LogResult(act, createErr)
                              /\ UNCHANGED auditlog
                         ELSE /\ Len(auditlog) < MaxLogs
                              /\ \A i \in DOMAIN auditlog : NotAfter(auditlog[i].CreatedAt, now)
                              /\ auditlog' = Append(auditlog,
                                     [Typ |-> act.Typ, RawIds |-> Join(rawIds, ";"),
                                      Reason |-> act.Reason, User |-> act.User,
                                      CreatedAt |-> now])
                              /\ last' = LogResult(act, "nil")
    /\ UNCHANGED <<backend, dshelpByHash, blocklistTable, datastore, calls>>

\* Limits the callers pass to GetLogs
Limits == 0..MaxLogs

\* The result of a GetLogs call
LogsResult(limit, logs, err) ==
    [Result("GetLogs", NoCid, NoData, FALSE, NoItem, err) EXCEPT !.limit = limit, !.logs = logs]

\* The order of audit keys, which are RFC 3339 strings: fixed-width digits
\* order as the wall clock does, and at one wall clock "+" sorts before "Z".
KeyLess(a, b) ==
    \/ a.wall < b.wall
    \/ a.wall = b.wall /\ a.zone = "+01:00" /\ b.zone = "Z"

\* dsq.OrderByKeyDescending over the keys of a store
RECURSIVE OrderByKeyDescending(_)
OrderByKeyDescending(keys) ==
    IF keys = {} THEN << >>
    ELSE LET top == CHOOSE k \in keys : \A x \in keys : x = k \/ KeyLess(x, k)
         IN  <<top>> \o OrderByKeyDescending(keys \ {top})

\* dsq.Query.Limit: the first limit results, and all of them when limit is 0
QueryLimit(entries, limit) ==
    IF limit = 0 \/ limit >= Len(entries) THEN entries ELSE SubSeq(entries, 1, limit)

\* DatastoreBlocklist.GetLogs, as a function of the audit store
DsGetLogs(store, limit) ==
    LET keys == QueryLimit(OrderByKeyDescending(DOMAIN store), limit)
    IN  [logs |-> [i \in DOMAIN keys |-> ActionUnmarshalBinary(store[keys[i]])], err |-> "nil"]

DatastoreGetLogs(limit) ==
    /\ backend = "ds"
    /\ LET r == DsGetLogs(auditstore, limit)
       IN  last' = LogsResult(limit, r.logs, r.err)
    /\ UNCHANGED <<backend, dshelpByHash, blocklistTable, datastore, auditlog, calls>>

\* ORDER BY created_at DESC, typ: row i comes before row j.  Rows equal in
\* both columns come in primary-key order.
PgOrderBefore(table, i, j) ==
    LET a == table[i]
        b == table[j]
    IN  \/ ~NotAfter(a.CreatedAt, b.CreatedAt)
        \/ /\ a.CreatedAt.sec = b.CreatedAt.sec /\ a.CreatedAt.nsec = b.CreatedAt.nsec
           /\ \/ a.Typ = "block" /\ b.Typ = "unblock"
              \/ a.Typ = b.Typ /\ i < j

RECURSIVE PgOrder(_, _)
PgOrder(table, rows) ==
    IF rows = {} THEN << >>
    ELSE LET top == CHOOSE i \in rows : \A j \in rows : j = i \/ PgOrderBefore(table, i, j)
         IN  <<table[top]>> \o PgOrder(table, rows \ {top})

\* gorm's Limit(limit): LIMIT limit for a positive limit.  Limit(0) is LIMIT 0
\* in gorm from v1.25 and no LIMIT clause before; zeroIsNoLimit says which.
PgLimit(rows, limit, zeroIsNoLimit) ==
    IF limit >= Len(rows) \/ (limit = 0 /\ zeroIsNoLimit) THEN rows ELSE SubSeq(rows, 1, limit)

\* PgBlocklist.GetLogs, lines 185-206, for one row.  strings.Split gives at
\* least one string; ids is made with length 0, so the first pass of the loop
\* either returns the error of cid.Parse or assigns ids[0] out of range.
PgLogAction(log) ==
    LET rawIds == Split(log.RawIds, ";")
        ids == << >>
    IN  IF Parse(rawIds[1]).err # "nil" THEN Parse(rawIds[1]).err
        ELSE IF 1 \notin DOMAIN ids THEN "panic"
        ELSE "nil"

\* PgBlocklist.GetLogs, as a function of the table: the first row fetched
\* ends the call; with no row fetched the result is empty.
PgGetLogs(table, limit, zeroIsNoLimit) ==
    LET logs == PgLimit(PgOrder(table, DOMAIN table), limit, zeroIsNoLimit)
    IN  IF Len(logs) = 0 THEN [logs |-> << >>, err |-> "nil"]
        ELSE [logs |-> << >>, err |-> PgLogAction(logs[1])]

PgBlocklistGetLogs(limit) ==
    /\ backend = "pg"
    /\ \E zeroIsNoLimit \in BOOLEAN :
           LET r == PgGetLogs(auditlog, limit, zeroIsNoLimit)
           IN  last' = LogsResult(limit, r.logs, r.err)
    /\ UNCHANGED <<backend, dshelpByHash, blocklistTable, datastore, auditlog, calls>>

\* ---------------------------------------------------------------- Purge
\* The content store the backend is constructed over is the node's: the node
\* keeps the payload of a block under dshelp.CidToDsKey of the block's CID.
Payload(id) == <<"block", id.hash>>

PutPayload(id) ==
    /\ datastore' = Put(datastore, NewKey(CidToDsKey(id)), Payload(id))
    /\ last' = Result("PutPayload", id, NoData, FALSE, NoItem, "nil")
    /\ UNCHANGED <<backend, dshelpByHash, blocklistTable, auditlog, calls>>

\* DatastoreBlocklist.Purge: Delete on the base datastore, under the key of
\* the converted CID; the error of Delete is returned.
DatastorePurge(id) ==
    /\ backend = "ds"
    /\ LET k == cidToKey(id)
       IN  IF k.err # "nil"
           THEN /\ last' = Result("Purge", id, NoData, FALSE, NoItem, k.err)
                /\ UNCHANGED datastore
           ELSE \E delErr \in WriteErrors :
                    /\ datastore' = IF delErr = "nil" THEN Delete(datastore, NewKey(k.key))
                                    ELSE datastore
                    /\ last' = Result("Purge", id, NoData, FALSE, NoItem, delErr)
    /\ UNCHANGED <<backend, dshelpByHash, blocklistTable, auditlog, calls>>

\* PgBlocklist.Purge: Delete on the content store, under the key of the CID as
\* given.
PgPurge(id) ==
    /\ backend = "pg"
    /\ \E delErr \in WriteErrors :
           /\ datastore' = IF delErr = "nil" THEN Delete(datastore, NewKey(CidToDsKey(id)))
                           ELSE datastore
           /\ last' = Result("Purge", id, NoData, FALSE, NoItem, delErr)
    /\ UNCHANGED <<backend, dshelpByHash, blocklistTable, auditlog, calls>>

\* ---------------------------------------------------------------- side by side
\* One deployment of each backend, both constructed empty, given the same
\* calls one after the other: the relational backend works on blocklistTable,
\* the key-value backend on datastore.

\* PgBlocklist.Block, as a function of the table
PgBlockOutcome(table, id, data) ==
    LET c == PgContains(table, id)
    IN  IF c.err # "nil" THEN [table |-> table, ret |-> FALSE, err |-> c.err]
        ELSE IF c.ret THEN [table |-> table, ret |-> TRUE, err |-> "nil"]
        ELSE [table |-> Append(table, PgBlockItem(id, data)), ret |-> FALSE, err |-> "nil"]

\* PgBlocklist.Unblock, as a function of the table
PgUnblockOutcome(table, id) ==
    LET res == PgSearch(table, id)
    IN  IF res.err # "nil" THEN [table |-> table, err |-> res.err]
        ELSE PgDelete(table, res.item)

\* DatastoreBlocklist.Block, as a function of the base datastore
DsBlockOutcome(d, id, data) ==
    LET k == cidToKey(id)
        c == DsContains(Wrap(d, safemodestoreNs), id)
    IN  IF k.err # "nil" THEN [d |-> d, ret |-> FALSE, err |-> k.err]
        ELSE IF c.err # "nil" THEN [d |-> d, ret |-> FALSE, err |-> c.err]
        ELSE IF c.ret THEN [d |-> d, ret |-> FALSE, err |-> "nil"]
        ELSE [d |-> WrapPut(d, safemodestoreNs, k.key,
                            BlocklistItemMarshalBinary(DsBlockItem(id, data))),
              ret |-> TRUE, err |-> "nil"]

\* DatastoreBlocklist.Unblock, as a function of the base datastore
DsUnblockOutcome(d, id) ==
    LET k == cidToKey(id)
    IN  IF k.err # "nil" THEN [d |-> d, err |-> k.err]
        ELSE [d |-> WrapDelete(d, safemodestoreNs, k.key), err |-> "nil"]

\* The result of a call made on both: the relational backend's, with the
\* key-value backend's as peer.
BothResult(op, id, data, ret, item, err, peer) ==
    [Result(op, id, data, ret, item, err) EXCEPT !.peer = peer]

BothBlock(id, data) ==
    /\ backend = "both"
    /\ LET p == PgBlockOutcome(blocklistTable, id, data)
           d == DsBlockOutcome(datastore, id, data)
       IN  /\ Len(p.table) <= MaxRows
           /\ blocklistTable' = p.table
           /\ datastore' = d.d
           /\ last' = BothResult("Block", id, data, p.ret, NoItem, p.err,
                                 [ret |-> d.ret, item |-> NoItem, err |-> d.err])
    /\ UNCHANGED <<backend, dshelpByHash, auditlog, calls>>

BothUnblock(id) ==
    /\ backend = "both"
    /\ LET p == PgUnblockOutcome(blocklistTable, id)
           d == DsUnblockOutcome(datastore, id)
       IN  /\ blocklistTable' = p.table
           /\ datastore' = d.d
           /\ last' = BothResult("Unblock", id, NoData, FALSE, NoItem, p.err,
                                 [ret |-> FALSE, item |-> NoItem, err |-> d.err])
    /\ UNCHANGED <<backend, dshelpByHash, auditlog, calls>>

BothSearch(id) ==
    /\ backend = "both"
    /\ LET p == PgSearch(blocklistTable, id)
           d == DsSearch(safemodestore, id)
       IN  last' = BothResult("Search", id, NoData, FALSE, p.item, p.err,
                              [ret |-> FALSE, item |-> d.item, err |-> d.err])
    /\ UNCHANGED <<backend, dshelpByHash, blocklistTable, datastore, auditlog, calls>>

BothContains(id) ==
    /\ backend = "both"
    /\ LET p == PgContains(blocklistTable, id)
           d == DsContains(safemodestore, id)
       IN  last' = BothResult("Contains", id, NoData, p.ret, NoItem, p.err,
                              [ret |-> d.ret, item |-> NoItem, err |-> d.err])
    /\ UNCHANGED <<backend, dshelpByHash, blocklistTable, datastore, auditlog, calls>>

\* ---------------------------------------------------------------- concurrent callers
\* The contract takes no lock (callers run in parallel request handlers), so
\* a Block call is two round trips to the store that other calls interleave
\* with: the Contains check, then the write.  Each caller makes one call.
Callers == 1..NumCallers
Idle == [pc |-> "idle", id |-> NoCid, data |-> NoData, ret |-> FALSE, err |-> "nil",
         created |-> FALSE, overwrote |-> FALSE]
Return(c, ret, err) == [c EXCEPT !.pc = "done", !.ret = ret, !.err = err]

\* PgBlocklist.Block, lines 106-116: up to the return of Contains
PgBlockCheck(p, id, data) ==
    /\ backend = "pg"
    /\ calls[p].pc = "idle"
    /\ LET c == PgContains(blocklistTable, id)
           me == [calls[p] EXCEPT !.id = id, !.data = data]
       IN  calls' = [calls EXCEPT ![p] =
               IF c.err # "nil" THEN Return(me, FALSE, c.err)
               ELSE IF c.ret THEN Return(me, TRUE, "nil")
               ELSE [me EXCEPT !.pc = "write"]]
    /\ UNCHANGED <<backend, dshelpByHash, blocklistTable, datastore, auditlog, last>>

\* PgBlocklist.Block, lines 118-122: Create, then return false
PgBlockCreate(p) ==
    /\ backend = "pg"
    /\ calls[p].pc = "write"
    /\ Len(blocklistTable) < MaxRows
    /\ blocklistTable' = Append(blocklistTable, PgBlockItem(calls[p].id, calls[p].data))
    /\ calls' = [calls EXCEPT ![p] = [Return(calls[p], FALSE, "nil") EXCEPT !.created = TRUE]]
    /\ UNCHANGED <<backend, dshelpByHash, datastore, auditlog, last>>

\* DatastoreBlocklist.Block, lines 70-79: up to the return of Contains
DatastoreBlockCheck(p, id, data) ==
    /\ backend = "ds"
    /\ calls[p].pc = "idle"
    /\ LET k == cidToKey(id)
           c == DsContains(safemodestore, id)
           me == [calls[p] EXCEPT !.id = id, !.data = data]
       IN  calls' = [calls EXCEPT ![p] =
               IF k.err # "nil" THEN Return(me, FALSE, k.err)
               ELSE IF c.err # "nil" THEN Return(me, FALSE, c.err)
               ELSE IF c.ret THEN Return(me, FALSE, "nil")
               ELSE [me EXCEPT !.pc = "write"]]
    /\ UNCHANGED <<backend, dshelpByHash, blocklistTable, datastore, auditlog, last>>

\* DatastoreBlocklist.Block, lines 81-95: Put, then return true
DatastoreBlockPut(p) ==
    /\ backend = "ds"
    /\ calls[p].pc = "write"
    /\ LET k == cidToKey(calls[p].id).key
       IN  /\ datastore' = WrapPut(datastore, safemodestoreNs, k,
                  BlocklistItemMarshalBinary(DsBlockItem(calls[p].id, calls[p].data)))
           /\ calls' = [calls EXCEPT ![p] =
                  [Return(calls[p], TRUE, "nil") EXCEPT
                      !.created = TRUE, !.overwrote = Has(safemodestore, k)]]
    /\ UNCHANGED <<backend, dshelpByHash, blocklistTable, auditlog, last>>

\* ---------------------------------------------------------------- specification
\* After construction: the backend chosen, its stores empty, no call made yet.
Init ==
    /\ backend \in {"pg", "ds"}
    /\ dshelpByHash \in BOOLEAN
    /\ blocklistTable = << >>
    /\ datastore = EmptyStore
    /\ auditlog = << >>
    /\ calls = [p \in Callers |-> Idle]
    /\ last = Result("New", NoCid, NoData, FALSE, NoItem, "nil")

Next ==
    \/ \E id \in CIDs, data \in BlockDatas : PgBlock(id, data)
    \/ \E id \in CIDs : PgUnblock(id)
    \/ \E id \in CIDs : PgBlocklistSearch(id)
    \/ \E id \in CIDs : PgBlocklistContains(id)
    \/ \E id \in CIDs, data \in BlockDatas : DatastoreBlock(id, data)
    \/ \E id \in CIDs : DatastoreUnblock(id)
    \/ \E id \in CIDs : DatastoreSearch(id)
    \/ \E id \in CIDs : DatastoreContains(id)

Spec == Init /\ [][Next]_vars

\* The audit operations alone: AddLog and GetLogs.  Nows are the readings of
\* the clock gorm stamps a row with.
Nows == {t \in CreatedAts : t.zone = 0}

NextLog ==
    \/ \E act \in Actions, now \in Nows : PgAddLog(act, now)
    \/ \E act \in Actions : DatastoreAddLog(act)
    \/ \E limit \in Limits : PgBlocklistGetLogs(limit)
    \/ \E limit \in Limits : DatastoreGetLogs(limit)

\* The audit operations derive no key from a CID, so one dshelp is enough.
InitLog == Init /\ dshelpByHash

SpecLog == InitLog /\ [][NextLog]_vars

\* Every operation of the contract, and the node storing payloads, on one
\* multihash: its legacy CID and its current-version dag-pb CID (and, for
\* Contains, the undefined CID).  The actions logged carry one creation
\* time and the clock stands at it.
IdsAll == {CidV0(1), NewCidV1(DagProtobuf, 1)}
DatasAll == {data \in BlockDatas : data.Reason = "DMCA"}
ActionsAll == {act \in Actions : act.CreatedAt = NoTime}

NextAll ==
    \/ \E id \in IdsAll, data \in DatasAll : PgBlock(id, data)
    \/ \E id \in IdsAll : PgUnblock(id)
    \/ \E id \in IdsAll : PgBlocklistSearch(id)
    \/ \E id \in IdsAll \cup {Undef} : PgBlocklistContains(id)
    \/ \E id \in IdsAll : PgPurge(id)
    \/ \E act \in ActionsAll : PgAddLog(act, NoTime)
    \/ \E limit \in Limits : PgBlocklistGetLogs(limit)
    \/ \E id \in IdsAll, data \in DatasAll : DatastoreBlock(id, data)
    \/ \E id \in IdsAll : DatastoreUnblock(id)
    \/ \E id \in IdsAll : DatastoreSearch(id)
    \/ \E id \in IdsAll \cup {Undef} : DatastoreContains(id)
    \/ \E id \in IdsAll : DatastorePurge(id)
    \/ \E act \in ActionsAll : DatastoreAddLog(act)
    \/ \E limit \in Limits : DatastoreGetLogs(limit)
    \/ \E id \in IdsAll : PutPayload(id)

SpecAll == Init /\ [][NextAll]_vars

\* The two backends side by side, from empty stores, on the two CIDs of one
\* multihash
InitBoth ==
    /\ backend = "both"
    /\ dshelpByHash \in BOOLEAN
    /\ blocklistTable = << >>
    /\ datastore = EmptyStore
    /\ auditlog = << >>
    /\ calls = [p \in Callers |-> Idle]
    /\ last = Result("New", NoCid, NoData, FALSE, NoItem, "nil")

NextBoth ==
    \/ \E id \in IdsAll, data \in BlockDatas : BothBlock(id, data)
    \/ \E id \in IdsAll : BothUnblock(id)
    \/ \E id \in IdsAll : BothSearch(id)
    \/ \E id \in IdsAll : BothContains(id)

SpecBoth == InitBoth /\ [][NextBoth]_vars

\* Concurrent Block calls.  The callers pass current-version CIDs, for which
\* one caller alone never writes twice, so that whatever two calls do to one
\* key is the doing of their interleaving.
CidsV1 == {id \in CIDs : id.version = 1}

NextConc ==
    \/ \E p \in Callers, id \in CidsV1, data \in BlockDatas : PgBlockCheck(p, id, data)
    \/ \E p \in Callers : PgBlockCreate(p)
    \/ \E p \in Callers, id \in CidsV1, data \in BlockDatas : DatastoreBlockCheck(p, id, data)
    \/ \E p \in Callers : DatastoreBlockPut(p)

SpecConc == Init /\ [][NextConc]_vars

\* ---------------------------------------------------------------- the contract
\* The Blocklist interface dispatches to the backend the deployment uses.
Contains(id) ==
    IF backend = "pg" THEN PgContains(blocklistTable, id) ELSE DsContains(safemodestore, id)
Search(id) ==
    IF backend = "pg" THEN PgSearch(blocklistTable, id) ELSE DsSearch(safemodestore, id)

\* ---------------------------------------------------------------- claims
\* The content key of a CID: a legacy CID stands for the current-version
\* dag-pb CID of its multihash; a current-version CID stands for itself.
ContentKey(id) == IF id.version = 0 THEN NewCidV1(DagProtobuf, id.hash) ELSE id

\* The number of blocklist entries stored for the content key of id.
EntryCount(id) ==
    IF backend = "pg"
    THEN Cardinality({i \in DOMAIN blocklistTable :
                        ContentKey(Parse(blocklistTable[i].Hash).id) = ContentKey(id)})
    ELSE IF Has(safemodestore, cidToKey(id).key) THEN 1 ELSE 0

\* The first return value of Block, by the contract: true, already blocked.
AlreadyBlocked(r) == r.ret = TRUE

\* Search(id) in the current state returns the metadata of data.
SearchGives(id, data) ==
    /\ Search(id).err = "nil"
    /\ Search(id).item.Reason = data.Reason
    /\ Search(id).item.User = data.User
    /\ Search(id).item.Content = data.Content

\* C1: Block is idempotent.  When Block(id, data2) follows a Block(id, data1)
\* (neither failing), there is afterwards exactly one entry for id's content
\* key, the second call reports "already blocked" and writes nothing, and,
\* the first call having created the entry, Search(id) returns the reason,
\* user and content of data1.
C1_BlockIdempotent ==
    [][ ( /\ last.op = "Block" /\ last.err = "nil"
          /\ last'.op = "Block" /\ last'.err = "nil" /\ last'.id = last.id )
        => ( /\ EntryCount(last.id)' = 1
             /\ AlreadyBlocked(last') /\ ~last'.created
             /\ last.created => SearchGives(last.id, last.data)' ) ]_vars

C3_ContainsIffEntry ==
    /\ \A id \in CIDs : Contains(id).ret <=> EntryCount(id) > 0
    /\ (last.op = "Block" /\ last.err = "nil") => Contains(last.id).ret

\* C4: after Block(id, data) then Unblock(id), neither failing, Contains(id)
\* is false and no entry for id remains; a Block(id, data2) that follows
\* creates an entry carrying data2 and reports it as not already blocked.
C4_UnblockThenFreshBlock ==
    [][ \A id \in CIDs, data2 \in BlockDatas :
        /\ ( /\ last'.op = "Unblock" /\ last'.err = "nil" /\ last'.afterBlock
             /\ last'.id = id )
           => ( ~Contains(id).ret' /\ EntryCount(id)' = 0 )
        /\ ( /\ last.op = "Unblock" /\ last.err = "nil" /\ last.afterBlock /\ last.id = id
             /\ last'.op = "Block" /\ last'.err = "nil" /\ last'.id = id
             /\ last'.data = data2 )
           => ( /\ ~AlreadyBlocked(last') /\ last'.created
                /\ SearchGives(id, data2)' ) ]_vars

\* The store key two concurrent calls contend for.
StoreKey(id) == IF backend = "pg" THEN PgContainsHash(id).hash ELSE cidToKey(id).key

\* C5: however concurrent Block calls for one content key interleave, at
\* most one of them creates an entry: no key ever has two entries, no call
\* overwrites the entry another call wrote, and no two calls for one key
\* both return as the creator.
C5_AtMostOneCreator ==
    /\ \A id \in CIDs : EntryCount(id) <= 1
    /\ \A p \in Callers : ~calls[p].overwrote
    /\ \A p \in Callers, q \in Callers :
          (p # q /\ calls[p].created /\ calls[q].created)
             => StoreKey(calls[p].id) # StoreKey(calls[q].id)

\* C6: the boolean Block returns is true exactly when an entry for id existed
\* before the call, and then nothing is written; it is false exactly when
\* the call created an entry.
C6_BlockReturnsAlreadyBlocked ==
    [][ ( last'.op = "Block" /\ last'.err = "nil" )
        => ( /\ AlreadyBlocked(last') <=> EntryCount(last'.id) > 0
             /\ AlreadyBlocked(last')
                   => (blocklistTable' = blocklistTable /\ safemodestore' = safemodestore)
             /\ ~AlreadyBlocked(last') <=> last'.created ) ]_vars

\* C7: Unblock(id) with no entry for id returns NotFound and changes nothing;
\* it returns no error only when an entry existed and the call removed it.
C7_UnblockNotFound ==
    [][ ( last'.op = "Unblock" )
        => ( /\ EntryCount(last'.id) = 0
                   => ( /\ last'.err = "NotFound"
                        /\ blocklistTable' = blocklistTable
                        /\ safemodestore' = safemodestore )
             /\ last'.err = "nil"
                   => ( /\ EntryCount(last'.id) > 0
                        /\ \A id \in CIDs : last'.id = id => EntryCount(id)' = 0 ) ) ]_vars

\* C8: right after a Block(id, data) that created the entry, Search(id)
\* returns an item whose Hash is the string of id's content key (the
\* current-version form), whose Reason and User are data's and whose Content
\* is data's sequence, the empty one included; and Search(id) with no entry
\* for id fails with NotFound.
C8_SearchReturnsBlocked ==
    /\ ( last.op = "Block" /\ last.err = "nil" /\ last.created )
          => ( /\ SearchGives(last.id, last.data)
               /\ Search(last.id).item.Hash = String(ContentKey(last.id)) )
    /\ \A id \in CIDs : EntryCount(id) = 0 => Search(id).err = "NotFound"

\* The legacy CID and the current-version dag-pb CID of one multihash.
Twins(a, b) ==
    /\ a.hash = b.hash /\ a.version # b.version
    /\ a.codec = DagProtobuf /\ b.codec = DagProtobuf

\* C9: Block, Search and Unblock address an entry by the key Contains uses.
\* With a and b the legacy and the current-version CID of one multihash, in
\* either order: right after Block(a, d), Search(b) finds the entry; a
\* Block(b, d2) that follows reports "already blocked" and writes nothing;
\* an Unblock(b) that follows returns no error and removes the entry.
C9_SameKeyEverywhere ==
    [][ /\ ( last'.op = "Block" /\ last'.err = "nil" )
           => \A b \in CIDs : Twins(last'.id, b) => Search(b).err' = "nil"
        /\ ( /\ last.op = "Block" /\ last.err = "nil"
             /\ last'.op = "Block" /\ Twins(last.id, last'.id) )
           => ( last'.err = "nil" /\ AlreadyBlocked(last') /\ ~last'.created )
        /\ ( /\ last.op = "Block" /\ last.err = "nil"
             /\ last'.op = "Unblock" /\ Twins(last.id, last'.id) )
           => ( last'.err = "nil" /\ EntryCount(last.id)' = 0 ) ]_vars

\* C10: AddLog of an action whose type is neither "block" nor "unblock"
\* returns an error and leaves the audit log as it was.
C10_InvalidTypNoWrite ==
    [][ ( last'.op = "AddLog" /\ last'.act.Typ \notin {"block", "unblock"} )
        => ( /\ last'.err # "nil"
             /\ auditlog' = auditlog
             /\ auditstore' = auditstore ) ]_vars

\* An AddLog of type "delete" was refused while the audit log held an entry.
C10_Witness ==
    /\ last.op = "AddLog" /\ last.act.Typ = "delete" /\ last.err = "InvalidActionType"
    /\ (Len(auditlog) > 0 \/ DOMAIN auditstore # {})

\* The stored audit entries: (primary key, row) in the relational backend,
\* (key, value) in the key-value backend.
AuditEntries ==
    IF backend = "pg" THEN {<<i, auditlog[i]>> : i \in DOMAIN auditlog}
    ELSE {<<k, auditstore[k]>> : k \in DOMAIN auditstore}

\* C11: the audit log is append-only: an AddLog that returns no error leaves
\* exactly one stored entry more than before, and no step changes or removes
\* an entry stored before it.
C11_AppendOnly ==
    [][ /\ ( last'.op = "AddLog" /\ last'.err = "nil" )
           => Cardinality(AuditEntries') = Cardinality(AuditEntries) + 1
        /\ AuditEntries \subseteq AuditEntries' ]_vars

\* C12: a GetLogs(n) that returns no error returns at most n entries, and no
\* entry of the result was created after the entry before it.
C12_AtMostLimitNewestFirst ==
    ( last.op = "GetLogs" /\ last.err = "nil" )
    => /\ Len(last.logs) <= last.limit
       /\ \A i, j \in DOMAIN last.logs :
              i < j => NotAfter(last.logs[j].CreatedAt, last.logs[i].CreatedAt)

\* The creation times of the stored audit entries
StoredCreatedAts ==
    IF backend = "pg" THEN {auditlog[i].CreatedAt : i \in DOMAIN auditlog}
    ELSE {ActionUnmarshalBinary(auditstore[k]).CreatedAt : k \in DOMAIN auditstore}

\* C13: right after an AddLog(act) that returned no error, with act created
\* no earlier than any stored action, GetLogs(1) returns no error and exactly
\* act; and any GetLogs(n) returns no error and min(n, m) actions, m being
\* the number of stored entries.
C13_GetLogsAfterAddLog ==
    [][ /\ ( /\ last.op = "AddLog" /\ last.err = "nil"
             /\ \A t \in StoredCreatedAts : NotAfter(t, last.act.CreatedAt)
             /\ last'.op = "GetLogs" /\ last'.limit = 1 )
           => ( last'.err = "nil" /\ last'.logs = <<last.act>> )
        /\ last'.op = "GetLogs"
           => /\ last'.err = "nil"
              /\ Len(last'.logs) = IF last'.limit < Cardinality(AuditEntries)
                                   THEN last'.limit ELSE Cardinality(AuditEntries) ]_vars

\* The action of the last call is stored: as the value under the key of its
\* creation time in the key-value backend, as the newest row in the
\* relational backend.
LastActStored ==
    IF backend = "pg"
    THEN /\ Len(auditlog) > 0
         /\ auditlog[Len(auditlog)].Typ = last.act.Typ
         /\ auditlog[Len(auditlog)].Reason = last.act.Reason
         /\ auditlog[Len(auditlog)].User = last.act.User
    ELSE /\ Has(auditstore, FormatRFC3339(last.act.CreatedAt))
         /\ auditstore[FormatRFC3339(last.act.CreatedAt)] = ActionMarshalBinary(last.act)

\* C14: AddLog never returns nil for an action that was not stored: when the
\* write to the store fails, the call returns an error.
C14_NoNilWithoutStore ==
    [][ ( last'.op = "AddLog" /\ last'.err = "nil" ) => LastActStored' ]_vars

\* The key of id's payload in the base content store: the normalized content
\* key, unprefixed.
ContentStoreKey(id) == NewKey(CidToDsKey(ContentKey(id)))

\* The stored blocklist entries: (primary key, row) in the relational
\* backend, (key, value) in the key-value backend.
BlocklistEntries ==
    IF backend = "pg" THEN {<<i, blocklistTable[i]>> : i \in DOMAIN blocklistTable}
    ELSE {<<k, safemodestore[k]>> : k \in DOMAIN safemodestore}

C16_BackendsAgree ==
    /\ last.op \in {"Block", "Unblock", "Search", "Contains"}
       => ( last.ret = last.peer.ret /\ last.item = last.peer.item /\ last.err = last.peer.err )
    /\ \A id \in CIDs : PgContains(blocklistTable, id) = DsContains(safemodestore, id)

\* C17: Contains of the undefined (zero-value) CID fails with the
\* InvalidIdentifier kind of error: it neither answers with a boolean and no
\* error, nor reports NotFound.
C17_UndefIsInvalidIdentifier ==
    ( last.op = "Contains" /\ ~Defined(last.id) ) => last.err = "InvalidIdentifier"

\* s is an earlier instant than t
Before(s, t) == ~NotAfter(t, s)

\* C18: in the key-value backend the audit key of an action is strictly
\* order-preserving in its creation time: when AddLog stores an action, its
\* key is above the key of every stored action created before it and below
\* the key of every stored action created after it (so the two never share
\* a key).
C18_KeyOrderPreserving ==
    [][ ( backend = "ds" /\ last'.op = "AddLog" /\ last'.err = "nil" )
        => \A k \in DOMAIN auditstore :
              LET x == ActionUnmarshalBinary(auditstore[k]).CreatedAt
                  y == last'.act.CreatedAt
              IN  /\ Before(x, y) => KeyLess(k, FormatRFC3339(y))
                  /\ Before(y, x) => KeyLess(FormatRFC3339(y), k) ]_vars

\* C19: in the relational backend, AddLog of an action of valid type with k
\* identifiers ends without an out-of-range index and, when it returns no
\* error, has stored the k identifier strings joined by ";"; and GetLogs
\* ends without an out-of-range index or a parse error.
C19_IdsRoundTrip ==
    [][ backend = "pg"
        => /\ ( last'.op = "AddLog" /\ PgAddLogTypOk(last'.act) )
              => /\ last'.err # "panic"
                 /\ last'.err = "nil"
                    => auditlog'[Len(auditlog')].RawIds =
                          Join([i \in DOMAIN last'.act.Ids |-> String(last'.act.Ids[i])], ";")
           /\ last'.op = "GetLogs" => last'.err = "nil" ]_vars

\* C20: Block and Unblock add, change and remove no audit entry; AddLog,
\* whether it succeeds or fails, adds, changes and removes no blocklist
\* entry; GetLogs, Contains and Search change nothing that is stored.
C20_SeparateFrames ==
    [][ /\ last'.op \in {"Block", "Unblock"} => AuditEntries' = AuditEntries
        /\ last'.op = "AddLog" => BlocklistEntries' = BlocklistEntries
        /\ last'.op \in {"GetLogs", "Contains", "Search"}
           => ( blocklistTable' = blocklistTable /\ datastore' = datastore
                /\ auditlog' = auditlog ) ]_vars

\* An AddLog stored an action while a blocklist entry was stored.
C20_Witness ==
    /\ last.op = "AddLog" /\ last.err = "nil" /\ LastActStored
    /\ BlocklistEntries # {}

====
